---- MODULE Spec2Model ----
(***************************************************************************)
(* ETag feature of flask_rest_api (src/flask_rest_api/etag.py).            *)
(*                                                                         *)
(* validate_etag, process_etag and generate_etag are modelled as           *)
(* operators that follow the control flow of the Python functions; one     *)
(* action per handler applies them to a request.  Python values that reach *)
(* json.dumps are modelled as tagged records; a dict is the sequence of    *)
(* its (key, value) pairs in insertion order, so that key order is visible *)
(* to the serializer.                                                      *)
(***************************************************************************)
EXTENDS Integers, Sequences, FiniteSets, TLC

\* Largest integer stored in a field of a resource.
MaxVal == 1
\* Largest number of entity tags in an If-Match / If-None-Match header.
MaxTags == 2

-----------------------------------------------------------------------------
(* Python values handed to json.dumps                                      *)

PyNone == [t |-> "none", n |-> 0, kv |-> <<>>]
PyInt(i) == [t |-> "int", n |-> i, kv |-> <<>>]
PyDict(pairs) == [t |-> "dict", n |-> 0, kv |-> pairs]
Pair(key, val) == [k |-> key, v |-> val]

\* Python orders str keys by code point: "a" < "b" < "id" < "value" < "x" < "y".
KeyRank(key) ==
    CASE key = "a" -> 1
      [] key = "b" -> 2
      [] key = "id" -> 3
      [] key = "value" -> 4
      [] key = "x" -> 5
      [] key = "y" -> 6

Digits == <<"0", "1", "2", "3", "4", "5", "6", "7", "8", "9">>

\* json.dumps of an int: its decimal digits.
RECURSIVE IntTokens(_)
IntTokens(i) ==
    IF i < 10 THEN <<Digits[i + 1]>>
    ELSE IntTokens(i \div 10) \o <<Digits[(i % 10) + 1]>>

RECURSIVE InsertByKey(_, _)
InsertByKey(p, s) ==
    IF s = <<>> THEN <<p>>
    ELSE IF KeyRank(p.k) <= KeyRank(Head(s).k) THEN <<p>> \o s
    ELSE <<Head(s)>> \o InsertByKey(p, Tail(s))

\* Mutant of sort_keys: the pairs are emitted in insertion order.
sort_keys_off(pairs) == pairs

\* sort_keys=True: the items of a dict are emitted sorted by key.
RECURSIVE sort_keys(_)
sort_keys(pairs) ==
    IF pairs = <<>> THEN <<>>
    ELSE InsertByKey(Head(pairs), sort_keys(Tail(pairs)))

\* json.dumps(data, sort_keys=True), as the sequence of the tokens of the text.
RECURSIVE dumps(_)
RECURSIVE DumpMembers(_)
dumps(d) ==
    CASE d.t = "none" -> <<"null">>
      [] d.t = "int" -> IntTokens(d.n)
      [] d.t = "dict" -> <<"{">> \o DumpMembers(sort_keys(d.kv)) \o <<"}">>

DumpMembers(pairs) ==
    IF pairs = <<>> THEN <<>>
    ELSE <<"\"", Head(pairs).k, "\"", ":">> \o dumps(Head(pairs).v)
         \o (IF Len(pairs) > 1 THEN <<",">> ELSE <<>>)
         \o DumpMembers(Tail(pairs))

TokCode(tok) ==
    CASE tok = "{" -> 1
      [] tok = "}" -> 2
      [] tok = ":" -> 3
      [] tok = "," -> 4
      [] tok = "\"" -> 5
      [] tok = "null" -> 6
      [] tok = "a" -> 7
      [] tok = "b" -> 8
      [] tok = "id" -> 9
      [] tok = "value" -> 10
      [] tok = "x" -> 11
      [] tok = "y" -> 12
      [] tok = "0" -> 20
      [] tok = "1" -> 21
      [] tok = "2" -> 22
      [] tok = "3" -> 23
      [] tok = "4" -> 24
      [] tok = "5" -> 25
      [] tok = "6" -> 26
      [] tok = "7" -> 27
      [] tok = "8" -> 28
      [] tok = "9" -> 29

RECURSIVE Digest(_, _)
Digest(text, h) ==
    IF text = <<>> THEN h
    ELSE Digest(Tail(text), (h * 31 + TokCode(Head(text))) % 65521)

\* hashlib.sha1(...).hexdigest(): a digest that is a function of the text alone
\* (a rolling hash stands for SHA-1; distinct texts may collide).
sha1(text) == Digest(text, 7)

generate_etag(data) == sha1(dumps(data))

-----------------------------------------------------------------------------
(* The application, the view and the resource                              *)

\* request.method
Methods == {"GET", "HEAD", "POST", "PUT", "PATCH", "DELETE"}
\* app.config['ETAG_ENABLED']: absent, or a boolean
ConfigValues == {"unset", "True", "False"}
\* schema argument: a marshmallow Schema instance, None, or any other object
SchemaArgs == {"Schema", "None", "Other"}
\* endpoint argument: a MethodView instance that has _get_item, a MethodView
\* instance without it, or anything else (a view function, None)
EndpointArgs == {"MethodView", "MethodViewNoGetItem", "Function"}
\* get_item_func argument: a callable, or None
GetItemFuncArgs == {"callable", "None"}
\* response argument: a flask Response instance, or any other object
ResponseArgs == {"Response", "Other"}

\* The resource the fetch callback returns: its id never changes, its value does.
Items == [id : {1}, value : 0..MaxVal]

\* Orders in which a dict built by schema.dump may hold its keys.
FieldOrders == {<<"id", "value">>, <<"value", "id">>}

\* Response that carries no ETag header.
NoEtag == -1
\* An entity tag that is the fingerprint of no representation.
BogusTag == -2

\* schema.dump(item)[0]: the dict of the schema's fields, its keys in `order`.
schema_dump(item, order) ==
    PyDict([i \in 1..Len(order) |-> Pair(order[i], PyInt(item[order[i]]))])

\* Fingerprint of the schema-serialized resource, whatever the key order.
Fingerprint(item) == generate_etag(schema_dump(item, <<"id", "value">>))

\* Entity tags a client may send.
TagPool == {Fingerprint(i) : i \in Items} \cup {BogusTag}
HeaderValues == {T \in SUBSET TagPool : Cardinality(T) <= MaxTags}

\* Mutant of is_etag_enabled: the default of config.get is True.
is_etag_enabled_default_on(config) ==
    IF config = "unset" THEN TRUE ELSE config = "True"

\* app.config.get('ETAG_ENABLED', False)
is_etag_enabled(config) ==
    IF config = "unset" THEN FALSE ELSE config = "True"

\* Mutant of isinstance_Schema: only None is refused.
isinstance_Schema_not_none(schema) == schema # "None"

\* isinstance(schema, ma.Schema)
isinstance_Schema(schema) == schema = "Schema"

\* isinstance(response, Response)
isinstance_Response(response) == response = "Response"

\* Mutant of MutatingMethods: POST is included.
MutatingMethodsWithPost == {"PUT", "DELETE", "PATCH", "POST"}

\* request.method in ('PUT', 'DELETE', 'PATCH',)
MutatingMethods == {"PUT", "DELETE", "PATCH"}

\* Mutant of etag_data: the schema test is inverted.
etag_data_inverted(schema, data, order) ==
    IF schema = "None" THEN schema_dump(data, order) ELSE PyNone

\* schema.dump(data)[0] if schema is not None else None
etag_data(schema, data, order) ==
    IF schema # "None" THEN schema_dump(data, order) ELSE PyNone

\* The callback validate_etag ends up with: get_item_func when given, else the
\* endpoint's _get_item when the endpoint is a MethodView; "AttributeError" when
\* the getattr fails, "None" when nothing is found.
resolve_get_item_func(endpoint, get_item_func) ==
    IF endpoint \in {"MethodView", "MethodViewNoGetItem"} /\ get_item_func = "None"
    THEN (IF endpoint = "MethodView" THEN "callable" ELSE "AttributeError")
    ELSE get_item_func

\* Mutant of if_match_missing: the presence of If-Match is never required.
if_match_missing_never(if_match) == FALSE

\* not request.if_match
if_match_missing(if_match) == if_match = {}

\* Mutant of precondition_failed: the fingerprint must be the only tag.
precondition_failed_sole(etag_value, if_match) == if_match # {etag_value}

\* etag_value not in request.if_match
precondition_failed(etag_value, if_match) == etag_value \notin if_match

Result(outcome, etag, log) == [outcome |-> outcome, etag |-> etag, log |-> log]

\* validate_etag(endpoint, schema, get_item_func): how the call ends
\* ("ok" when it returns) and the reads it made, in order.
validate_etag(config, endpoint, schema, get_item_func, method, if_match, item, order) ==
    IF ~isinstance_Schema(schema) THEN Result("ValueError", NoEtag, <<>>)
    ELSE IF ~is_etag_enabled(config) THEN Result("ok", NoEtag, <<>>)
    ELSE IF method \notin MutatingMethods THEN Result("ok", NoEtag, <<>>)
    ELSE LET func == resolve_get_item_func(endpoint, get_item_func) IN
         IF func # "callable" THEN Result("AttributeError", NoEtag, <<>>)
         ELSE LET etag_value == generate_etag(etag_data(schema, item, order)) IN
              IF if_match_missing(if_match)
              THEN Result("428", NoEtag, <<"get_item_func", "if_match">>)
              ELSE IF precondition_failed(etag_value, if_match)
              THEN Result("412", NoEtag, <<"get_item_func", "if_match">>)
              ELSE Result("ok", NoEtag, <<"get_item_func", "if_match">>)

\* Mutant of not_modified: the tag must be the only one of If-None-Match.
not_modified_sole(method, if_none_match, etag_value) ==
    method = "GET" /\ if_none_match = {etag_value}

\* Mutant of not_modified: the method is not looked at.
not_modified_any_method(method, if_none_match, etag_value) ==
    if_none_match # {} /\ etag_value \in if_none_match

\* request.method == 'GET' and request.if_none_match
\*     and etag_value in request.if_none_match
not_modified(method, if_none_match, etag_value) ==
    method = "GET" /\ if_none_match # {} /\ etag_value \in if_none_match

\* process_etag(response, schema, data, validate): how the call ends and the
\* ETag header of the response afterwards.
process_etag(config, response, schema, data, validate, method, if_none_match, order) ==
    IF ~validate THEN Result("ok", NoEtag, <<>>)
    ELSE IF ~isinstance_Response(response) THEN Result("ValueError", NoEtag, <<>>)
    ELSE IF ~isinstance_Schema(schema) THEN Result("ValueError", NoEtag, <<>>)
    ELSE IF ~(is_etag_enabled(config) /\ method # "DELETE") THEN Result("ok", NoEtag, <<>>)
    ELSE LET etag_value == generate_etag(etag_data(schema, data, order)) IN
         IF not_modified(method, if_none_match, etag_value)
         THEN Result("304", NoEtag, <<"if_none_match">>)
         ELSE Result("ok", etag_value, <<"if_none_match", "set_etag">>)

-----------------------------------------------------------------------------
(* Inputs of generate_etag taken on their own                              *)

Range(s) == {s[i] : i \in DOMAIN s}

\* The orders in which a dict may hold some of the keys of K.
KeyOrders(K) ==
    UNION {{s \in [1..n -> K] : \A i, j \in 1..n : s[i] = s[j] => i = j}
           : n \in 0..Cardinality(K)}

\* The dicts over keys of K whose value at key k is in V[k], in every key order.
DictsOver(K, V) ==
    UNION {{PyDict([i \in 1..Len(s) |-> Pair(s[i], f[s[i]])])
            : f \in {g \in [Range(s) -> UNION {V[k] : k \in K}]
                     : \A k \in Range(s) : g[k] \in V[k]}}
           : s \in KeyOrders(K)}

PyInts == {PyInt(i) : i \in 0..MaxVal}
InnerValues == [k \in {"x", "y"} |-> PyInts]
InnerDicts == DictsOver({"x", "y"}, InnerValues)
OuterValues == [k \in {"a", "b"} |-> IF k = "a" THEN PyInts ELSE PyInts \cup InnerDicts]
\* Representations handed to generate_etag: dicts nested at most once.
Representations == DictsOver({"a", "b"}, OuterValues)

Keys(d) == {d.kv[i].k : i \in DOMAIN d.kv}
Lookup(d, key) == (CHOOSE i \in DOMAIN d.kv : d.kv[i].k = key)

\* d1 == d2 in Python: ints are equal, dicts hold equal values under the same
\* keys, in whatever order the keys were inserted.
RECURSIVE PyEqual(_, _)
PyEqual(d1, d2) ==
    /\ d1.t = d2.t
    /\ d1.t = "int" => d1.n = d2.n
    /\ d1.t = "dict" =>
          /\ Keys(d1) = Keys(d2)
          /\ \A key \in Keys(d1) :
                PyEqual(d1.kv[Lookup(d1, key)].v, d2.kv[Lookup(d2, key)].v)

-----------------------------------------------------------------------------
(* State                                                                   *)

VARIABLES
    config,     \* app.config['ETAG_ENABLED']
    view,       \* the arguments the view hands to validate_etag and process_etag
    item,       \* the resource as the fetch callback returns it
    held,       \* the ETag a client kept from a response (NoEtag: none)
    heldItem,   \* the resource as it was when that response was made
    last,       \* the handler call of the request in progress and how it ended
    gen         \* two calls of generate_etag on their own

vars == <<config, view, item, held, heldItem, last, gen>>

Views ==
    [endpoint : EndpointArgs, schema : SchemaArgs, get_item_func : GetItemFuncArgs,
     response : ResponseArgs, validate : BOOLEAN]

Idle ==
    [fn |-> "idle", method |-> "GET", if_match |-> {}, if_none_match |-> {},
     outcome |-> "ok", etag |-> NoEtag, log |-> <<>>]

Call(fn, method, if_match, if_none_match, r) ==
    [fn |-> fn, method |-> method, if_match |-> if_match,
     if_none_match |-> if_none_match,
     outcome |-> r.outcome, etag |-> r.etag, log |-> r.log]

GenOff == [a |-> PyNone, b |-> PyNone, ea |-> NoEtag, eb |-> NoEtag, pc |-> "off"]

Init ==
    /\ config \in ConfigValues
    /\ view \in Views
    /\ item \in Items
    /\ held = NoEtag
    /\ heldItem = item
    /\ last = Idle
    /\ gen = GenOff

\* A request reaches validate_etag.
ValidateEtag(method, if_match, order) ==
    /\ last.fn = "idle"
    /\ last' = Call("validate_etag", method, if_match, {},
                    validate_etag(config, view.endpoint, view.schema,
                                  view.get_item_func, method, if_match, item, order))
    /\ UNCHANGED <<config, view, item, held, heldItem, gen>>

\* The view's response reaches process_etag, with the resource as data.
ProcessEtag(method, if_none_match, order) ==
    /\ last.fn = "idle"
    /\ last' = Call("process_etag", method, {}, if_none_match,
                    process_etag(config, view.response, view.schema, item,
                                 view.validate, method, if_none_match, order))
    /\ UNCHANGED <<config, view, item, held, heldItem, gen>>

\* validate_etag returned on a PUT or PATCH: the view stores the new value.
Update(value) ==
    /\ last.fn = "validate_etag"
    /\ last.outcome = "ok"
    /\ last.method \in {"PUT", "PATCH"}
    /\ item' = [item EXCEPT !.value = value]
    /\ last' = Idle
    /\ UNCHANGED <<config, view, held, heldItem, gen>>

\* The client keeps the ETag of the response it received.
KeepEtag ==
    /\ last.fn = "process_etag"
    /\ last.etag # NoEtag
    /\ held' = last.etag
    /\ heldItem' = item
    /\ last' = Idle
    /\ UNCHANGED <<config, view, item, gen>>

\* The request ends: with the error raised, or with the response sent.
Respond ==
    /\ last.fn # "idle"
    /\ last' = Idle
    /\ UNCHANGED <<config, view, item, held, heldItem, gen>>

Next ==
    \/ \E method \in Methods, if_match \in HeaderValues, order \in FieldOrders :
          ValidateEtag(method, if_match, order)
    \/ \E method \in Methods, if_none_match \in HeaderValues, order \in FieldOrders :
          ProcessEtag(method, if_none_match, order)
    \/ \E value \in 0..MaxVal : Update(value)
    \/ KeepEtag
    \/ Respond

Spec == Init /\ [][Next]_vars

\* generate_etag applied to two representations.
InitGenerate ==
    /\ config = "True"
    /\ view = [endpoint |-> "MethodView", schema |-> "Schema",
               get_item_func |-> "None", response |-> "Response", validate |-> TRUE]
    /\ item = [id |-> 1, value |-> 0]
    /\ held = NoEtag
    /\ heldItem = item
    /\ last = Idle
    /\ \E a \in Representations, b \in Representations :
          gen = [a |-> a, b |-> b, ea |-> NoEtag, eb |-> NoEtag, pc |-> "start"]

GenerateEtag ==
    /\ gen.pc = "start"
    /\ gen' = [gen EXCEPT !.ea = generate_etag(gen.a), !.eb = generate_etag(gen.b),
                          !.pc = "done"]
    /\ UNCHANGED <<config, view, item, held, heldItem, last>>

NextGenerate == GenerateEtag

SpecGenerate == InitGenerate /\ [][NextGenerate]_vars

-----------------------------------------------------------------------------
(* Properties                                                              *)

Validated == last.fn = "validate_etag"
Processed == last.fn = "process_etag"
FeatureOn == config = "True"
Mutating == last.method \in {"PUT", "PATCH", "DELETE"}
SchemaGiven == view.schema = "Schema"
ResponseGiven == view.response = "Response"
\* get_item_func is given, or the endpoint is a MethodView that has _get_item.
CallbackGiven == view.get_item_func = "callable" \/ view.endpoint = "MethodView"
\* Number of calls of the fetch callback during the call of validate_etag.
Fetches == Cardinality({i \in DOMAIN last.log : last.log[i] = "get_item_func"})
\* The reads of If-Match all come after a call of the fetch callback.
FetchBeforeIfMatch ==
    \A i \in DOMAIN last.log : last.log[i] = "if_match" =>
        \E j \in 1..(i - 1) : last.log[j] = "get_item_func"

\* C1 as stated: a PUT, PATCH or DELETE without If-Match always ends in 428.
C1_Stated ==
    (Validated /\ Mutating /\ last.if_match = {}) => last.outcome = "428"

\* C1, amended: with the feature enabled, a Schema instance and a fetch callback,
\* a PUT, PATCH or DELETE without If-Match ends in 428 (never 412, never a
\* normal return), whatever the resource is.
C1_PreconditionRequired ==
    (Validated /\ Mutating /\ last.if_match = {}
       /\ FeatureOn /\ SchemaGiven /\ CallbackGiven)
    => last.outcome = "428"

C1_Witness ==
    /\ Validated /\ last.method = "PATCH" /\ last.if_match = {}
    /\ last.outcome = "428" /\ item.value = MaxVal

C3_Stated ==
    (Processed /\ last.method = "GET" /\ Fingerprint(item) \in last.if_none_match)
    => (last.outcome = "304" /\ last.etag = NoEtag)

\* C3, amended: with the feature enabled, validate true, a Response and a Schema
\* instance, a GET whose If-None-Match holds the fingerprint of the resource ends
\* in 304 and no ETag is set on the response.
C3_NotModified ==
    (Processed /\ last.method = "GET" /\ Fingerprint(item) \in last.if_none_match
       /\ FeatureOn /\ view.validate /\ ResponseGiven /\ SchemaGiven)
    => (last.outcome = "304" /\ last.etag = NoEtag)

C3_Witness ==
    /\ Processed /\ last.method = "GET" /\ last.outcome = "304"
    /\ last.etag = NoEtag
    /\ Cardinality(last.if_none_match) = 2
    /\ Fingerprint(item) \in last.if_none_match

C5_KeyOrder ==
    (gen.pc = "done" /\ PyEqual(gen.a, gen.b)) => gen.ea = gen.eb

C5_Witness ==
    /\ gen.pc = "done" /\ PyEqual(gen.a, gen.b) /\ gen.a # gen.b
    /\ Len(gen.a.kv) = 2
    /\ gen.a.kv[1].k = gen.b.kv[2].k
    /\ \E i \in 1..2 : gen.a.kv[i].v.t = "dict" /\ Len(gen.a.kv[i].v.kv) = 2
                       /\ gen.a.kv[i].v # gen.b.kv[3 - i].v
    /\ gen.ea = gen.eb

\* C6 as stated: with the feature enabled, a GET or HEAD whose If-None-Match does
\* not hold the fingerprint returns with the ETag set to the fingerprint.
C6_Stated ==
    (Processed /\ last.method \in {"GET", "HEAD"} /\ FeatureOn
       /\ Fingerprint(item) \notin last.if_none_match)
    => (last.outcome = "ok" /\ last.etag = Fingerprint(item))

\* C6, amended: with the feature enabled, validate true, a Response and a Schema
\* instance, a GET or HEAD whose If-None-Match does not hold the fingerprint
\* returns with the ETag of the response set to the fingerprint of the
\* schema-serialized resource.
C6_EtagSet ==
    (Processed /\ last.method \in {"GET", "HEAD"} /\ FeatureOn
       /\ Fingerprint(item) \notin last.if_none_match
       /\ view.validate /\ ResponseGiven /\ SchemaGiven)
    => (last.outcome = "ok" /\ last.etag = Fingerprint(item))

C6_Witness ==
    /\ Processed /\ last.method = "GET" /\ last.if_none_match # {}
    /\ Fingerprint(item) \notin last.if_none_match
    /\ last.outcome = "ok" /\ last.etag = Fingerprint(item)

C9_Outcomes ==
    (Processed /\ view.validate /\ ResponseGiven /\ SchemaGiven /\ FeatureOn) =>
       /\ last.outcome \in {"ok", "304"}
       /\ last.outcome = "304"
             <=> (last.method = "GET" /\ last.if_none_match # {}
                    /\ Fingerprint(item) \in last.if_none_match)
       /\ last.etag # NoEtag <=> (last.method # "DELETE" /\ last.outcome # "304")
       /\ last.etag # NoEtag => last.etag = Fingerprint(item)

C9_Witness ==
    /\ Processed /\ view.validate /\ ResponseGiven /\ SchemaGiven /\ FeatureOn
    /\ last.method = "POST" /\ Fingerprint(item) \in last.if_none_match
    /\ last.outcome = "ok" /\ last.etag = Fingerprint(item)

====
